---- MODULE Spec2Model ----
(***************************************************************************)
(* Model of the videofront transcoding pipeline: the cache-backed locks,   *)
(* the sweep (monitor_uploads), the per-url upload check (monitor_upload)  *)
(* and the transcoding driver (transcode_video) of pipeline/tasks.py,      *)
(* send_task of videofront/celery_videofront.py, the rows and signal       *)
(* receivers of pipeline/models.py, and the video views of api/v1/views.py *)
(* (retrieve with its cached read-view, destroy, subtitles, transcode).    *)
(*                                                                         *)
(* One public video id is modelled: locks, upload urls and videos of       *)
(* different ids never touch the same cache key or row.  Every statement   *)
(* of a task or view that reads or writes the database, the cache or the   *)
(* backend is one step of the worker that runs it, so that the steps of    *)
(* concurrent workers interleave as they do between celery workers and     *)
(* request threads.  The invalidation of the cached view by a post_save or *)
(* post_delete receiver is part of the step of the write that sends the    *)
(* signal; the insert made by create_video_processing_state is a step of   *)
(* its own where the Video is committed before the receiver runs.          *)
(*                                                                         *)
(* Fault model: a backend call may raise any exception; cache.delete may   *)
(* raise TransactionManagementError (release_lock handles it); a cache     *)
(* entry stored with a timeout disappears when the timeout has elapsed;    *)
(* in SpecUploadStops and SpecTranscodeStops the worker that runs a task   *)
(* may stop between acquire_lock and release_lock; in SpecSweepFails the   *)
(* worker that detected an upload may fail between the creation of the     *)
(* Video and the dispatch of 'transcode_video'.                            *)
(***************************************************************************)
EXTENDS Integers, Sequences, FiniteSets, TLC

(***************************************************************************)
(* Bounds                                                                  *)
(***************************************************************************)
\* number of monitor_upload invocations (each worker runs the task once)
NumMonitorCalls == 2
\* number of transcode_video invocations (each worker runs the task once)
NumTranscodeCalls == 2
\* largest number of jobs start_transcoding returns
MaxJobs == 2

\* number of API requests (each is one of retrieve, destroy, subtitles, transcode)
NumRequests == 2
\* readings of the clock
MaxClock == 2

MWorkers == 1..NumMonitorCalls
TWorkers == 1..NumTranscodeCalls
Requests == 1..NumRequests

(***************************************************************************)
(* Values                                                                  *)
(***************************************************************************)
PublicVideoId == "abc123"
Filename == "movie.mp4"
\* a title given to the video through the API
NewTitle == "holidays"
\* the owner of the upload url, who owns the videos made from it (tasks.py:135,
\* views.py:436), and the users who send requests
Owner == "alice"
Users == {"alice", "bob"}
Playlists == {"None", "playlist1"}

\* cache timeouts: acquire_lock(lock, 60) and acquire_lock(lock) (never expires)
MONITOR_LOCK_TIMEOUT == 60
NO_TIMEOUT == 0

MONITOR_LOCK == "TASK_LOCK_MONITOR_UPLOAD:" \o PublicVideoId
TRANSCODE_LOCK == "TRANSCODE_VIDEO:" \o PublicVideoId

STATUS_PENDING == "pending"
STATUS_PROCESSING == "processing"
STATUS_FAILED == "failed"
STATUS_SUCCESS == "success"
STATUS_RESTART == "restart"

\* An element of e.args: a str, or a value of another type (an errno, ...).
StrArg(s) == [isStr |-> TRUE, text |-> s]
IntArg(s) == [isStr |-> FALSE, text |-> s]

NoException == [type |-> "None", args |-> <<>>]
Raised(t, a) == [type |-> t, args |-> a]

\* The percentages check_progress reports.
Percents == {0, 100}

\* The argument tuples of TranscodingFailed: TranscodingFailed(message), or none.
TranscodingFailedArgs == { <<>>, <<StrArg("codec error")>> }

\* The formats the backend can report, in its order.
BackendFormats ==
    <<[name |-> "LD", bitrate |-> 900], [name |-> "HD", bitrate |-> 5400]>>

\* The lists iter_formats can yield.
FormatLists == {SubSeq(BackendFormats, 1, n) : n \in 0..Len(BackendFormats)}

\* The argument tuples of the exceptions a backend call raises.
BackendErrorArgs ==
    { <<>>, <<StrArg("backend unavailable")>>,
      <<IntArg("5"), StrArg("Input/output error")>> }

VARIABLES
    cache,              \* entries of the django cache (the locks): [key, timeout]
    upload_url,         \* the VideoUploadUrl row of PublicVideoId
    uploaded,           \* the backend holds the uploaded file
    videos,             \* Video rows
    video_playlists,    \* rows of the Video.playlists relation: <<video pk, playlist>>
    processing_states,  \* ProcessingState rows
    formats,            \* VideoFormat rows, ordered by id
    next_pk,            \* next primary key of the Video table
    sent_tasks,         \* number of send_task('transcode_video') calls made
    mw,                 \* monitor_upload invocations, by worker
    tw,                 \* transcode_video invocations, by worker
    now,                \* the clock that django.utils.timezone.now() reads
    view_cache,         \* the cached read-view of PublicVideoId: <<>> or <<view>>
    subtitles,          \* Subtitle rows
    backend_subtitles,  \* the subtitle ids whose content the backend holds
    rq,                 \* API requests, by number
    sweep               \* the monitor_uploads task, and the setting send_task reads

vars == <<cache, upload_url, uploaded, videos, video_playlists, processing_states,
          formats, next_pk, sent_tasks, mw, tw, now, view_cache, subtitles,
          backend_subtitles, rq, sweep>>

\* what monitor_upload and transcode_video leave alone
api == <<subtitles, backend_subtitles, rq, sweep>>

\* the rows of the database
db == <<upload_url, videos, video_playlists, processing_states, formats, next_pk>>

(***************************************************************************)
(* The lock manager (tasks.py: acquire_lock, release_lock, wait_for_lock)  *)
(***************************************************************************)
CacheKeys(c) == {e.key : e \in c}

\* acquire_lock(name, expires_in) with every cache.add reporting success
AcquireLockUnchecked(c, name, expires_in) ==
    [acquired |-> TRUE, cache |-> c \cup {[key |-> name, timeout |-> expires_in]}]

\* acquire_lock(name, expires_in) that stores the key without its timeout
AcquireLockNoTimeout(c, name, expires_in) ==
    IF name \notin CacheKeys(c)
    THEN [acquired |-> TRUE,
          cache |-> c \cup {[key |-> name, timeout |-> NO_TIMEOUT]}]
    ELSE [acquired |-> FALSE, cache |-> c]

\* acquire_lock(name, expires_in): cache.add stores the key only if it is
\* absent; LockUnavailable is raised (acquired = FALSE) when it did not
AcquireLock(c, name, expires_in) ==
    IF name \notin CacheKeys(c)
    THEN [acquired |-> TRUE,
          cache |-> c \cup {[key |-> name, timeout |-> expires_in]}]
    ELSE [acquired |-> FALSE, cache |-> c]

\* outcomes of cache.delete inside release_lock
CacheDeleteOutcomes == {"deleted", "TransactionManagementError"}

\* release_lock(name): the key is removed, unless cache.delete raised
\* TransactionManagementError, which is logged and swallowed
ReleaseLock(c, name, outcome) ==
    IF outcome = "deleted" THEN {e \in c : e.key # name} ELSE c

\* wait_for_lock that returns after its first sleep
LockAbsentUnchecked(c, name) == TRUE

\* the condition that ends the loop of wait_for_lock: cache.get(name) is None
LockAbsent(c, name) == name \notin CacheKeys(c)

\* A cache entry stored with a timeout is gone once the timeout has elapsed.
ExpireLock ==
    /\ \E e \in cache :
          /\ e.timeout # NO_TIMEOUT
          /\ cache' = cache \ {e}
    /\ UNCHANGED <<db, uploaded, sent_tasks, mw, tw>>
    /\ UNCHANGED <<now, view_cache, api>>

(***************************************************************************)
(* Rows                                                                    *)
(***************************************************************************)
\* Video.objects.filter(public_id=...)
VideosOf(rows, public_id) == {v \in rows : v.public_id = public_id}

\* INSERT into the Video table without the unique index on public_id
InsertVideoNoUnique(rows, row) == [ok |-> TRUE, rows |-> rows \cup {row}]

\* INSERT into the Video table: public_id is unique (models.py), a second
\* row with the same public_id is refused with IntegrityError
InsertVideo(rows, row) ==
    IF VideosOf(rows, row.public_id) = {}
    THEN [ok |-> TRUE, rows |-> rows \cup {row}]
    ELSE [ok |-> FALSE, rows |-> rows]

\* upload_url.last_checked is None
NoLastChecked == -1

\* line 127: now() if last_checked is None, else max(last_checked, now())
NewLastChecked(last_checked, t) ==
    IF last_checked = NoLastChecked THEN t
    ELSE IF last_checked > t THEN last_checked ELSE t

\* cache.get(public_video_id): the read-view that is cached, if any
CacheGet(vc, public_video_id) == vc

\* cache.set(public_video_id, response_data): the entry holds the data until
\* it is invalidated
CacheSet(vc, public_video_id, response_data) == response_data

\* cache.invalidate(public_video_id): the cached read-view is removed
InvalidateCache(vc, public_video_id) == <<>>

\* the ProcessingState row that create_video_processing_state creates
NewProcessingState(pk) ==
    [video |-> pk, status |-> STATUS_PENDING, progress |-> [num |-> 0, den |-> 1],
     message |-> "", started_at |-> now]

(***************************************************************************)
(* send_task (celery_videofront.py:23-35) and monitor_uploads              *)
(* (tasks.py:74-88)                                                        *)
(***************************************************************************)
\* send_task that runs every task inside the caller
SendTaskAlwaysApplies(eager) == TRUE

\* line 29: with CELERY_TASK_ALWAYS_EAGER send_task runs the task inside the
\* caller (task.apply) and returns when it has ended; otherwise the message
\* is handed to the broker (app.send_task) and send_task returns
SendTaskApplies(eager) == eager

\* the monitor_uploads task before it is called, with the setting
\* CELERY_TASK_ALWAYS_EAGER (production.py:199, = DEBUG)
IdleSweep ==
    [eager |-> FALSE, pc |-> "idle",
     listed |-> <<>>,      \* the public ids of the urls should_check returned
     urls |-> <<>>,        \* those the for loop has not reached yet
     sent |-> <<>>,        \* the ids send_task('monitor_upload') was called with
     queued |-> 0,         \* 'monitor_upload' messages handed to the broker
     inline |-> 0,         \* monitor_upload executions run inside the sweep
     outcome |-> "none"]

\* VideoUploadUrl.objects.should_check(): the urls that are unused and that
\* the policy of the store (expiry, grace period, time of the last check)
\* lets through; the possible results
ShouldCheck(url) ==
    IF url.was_used THEN {<<>>} ELSE {<<>>, <<url.public_video_id>>}

(***************************************************************************)
(* monitor_upload (tasks.py:90-144)                                        *)
(***************************************************************************)
IdleMonitor ==
    [pc |-> "idle", wait |-> FALSE, acquired |-> FALSE,
     runs_at_call |-> 0,   \* executions of _monitor_upload ended when a waiting call was made
     url |-> [public_video_id |-> "", was_used |-> FALSE,
             filename |-> "", playlist |-> "None", last_checked |-> NoLastChecked],
     video |-> [pk |-> 0, public_id |-> "", title |-> "", owner |-> ""],
     created |-> FALSE, exc |-> NoException,
     not_uploaded |-> FALSE,   \* check_video raised VideoNotUploaded
     already_used |-> FALSE,   \* at line 116 the url was marked used, the Video
                               \* existed and no other check was in progress
     outcome |-> "none"]

\* the invocations whose _monitor_upload is executing
InMonitorUpload ==
    {w \in MWorkers : mw[w].pc \in {"get_url", "check_video", "save_url", "get",
                                    "create", "update_video", "dispatch", "apply"}}

\* the invocations whose _monitor_upload has ended (returned or raised)
MonitorUploadEnded ==
    {w \in MWorkers : mw[w].acquired /\ mw[w].pc \in {"release", "ended"}}

SetMonitor(w, r) == mw' = [mw EXCEPT ![w] = r]

\* lines 101-107: the task is called; the lock is acquired, or the call
\* returns (wait = False) or goes on to wait_for_lock (wait = True)
MonitorUploadCall(w) ==
    /\ mw[w].pc = "idle"
    /\ \A v \in MWorkers : v < w => mw[v].pc # "idle"   \* calls are numbered in order
    /\ \E wait \in BOOLEAN :
         LET got == AcquireLock(cache, MONITOR_LOCK, MONITOR_LOCK_TIMEOUT) IN
         /\ cache' = got.cache
         /\ SetMonitor(w, [mw[w] EXCEPT
               !.wait = wait /\ ~got.acquired,
               !.acquired = got.acquired,
               !.runs_at_call = IF ~got.acquired /\ wait
                                THEN Cardinality(MonitorUploadEnded) ELSE 0,
               !.pc = IF got.acquired THEN "get_url"
                      ELSE IF wait THEN "waiting" ELSE "ended",
               !.outcome = IF got.acquired \/ wait THEN "none" ELSE "returned"])
    /\ UNCHANGED <<db, uploaded, sent_tasks, tw>>
    /\ UNCHANGED <<now, view_cache, api>>

\* lines 39-41, 106-107: wait_for_lock sees the key absent and the call returns
MonitorUploadWaitEnd(w) ==
    /\ mw[w].pc = "waiting"
    /\ LockAbsent(cache, MONITOR_LOCK)
    /\ SetMonitor(w, [mw[w] EXCEPT !.pc = "ended", !.outcome = "returned"])
    /\ UNCHANGED <<cache, db, uploaded, sent_tasks, tw>>
    /\ UNCHANGED <<now, view_cache, api>>

\* line 116: the upload url is loaded
MonitorGetUploadUrl(w) ==
    /\ mw[w].pc = "get_url"
    /\ SetMonitor(w, [mw[w] EXCEPT
          !.url = upload_url,
          !.already_used = (/\ upload_url.was_used
                            /\ VideosOf(videos, upload_url.public_video_id) # {}
                            /\ \A v \in MWorkers \ {w} :
                                  mw[v].pc \in {"idle", "ended"}),
          !.pc = "check_video"])
    /\ UNCHANGED <<cache, db, uploaded, sent_tasks, tw>>
    /\ UNCHANGED <<now, view_cache, api>>

\* lines 117-122: backend check_video returns, raises VideoNotUploaded, or
\* raises another error
MonitorCheckVideo(w) ==
    /\ mw[w].pc = "check_video"
    /\ \/ /\ uploaded
          /\ SetMonitor(w, [mw[w] EXCEPT !.url.was_used = TRUE, !.pc = "save_url"])
       \/ /\ ~uploaded
          /\ SetMonitor(w, [mw[w] EXCEPT
                !.exc = Raised("VideoNotUploaded", <<>>), !.pc = "save_url"])
       \/ SetMonitor(w, [mw[w] EXCEPT
             !.exc = Raised("Exception", <<>>), !.pc = "save_url"])
    /\ UNCHANGED <<cache, db, uploaded, sent_tasks, tw>>
    /\ UNCHANGED <<now, view_cache, api>>

\* lines 123-128: finally, the upload url is saved, all fields from the
\* instance loaded at line 116; VideoNotUploaded ends the check, another
\* error propagates
MonitorSaveUploadUrl(w) ==
    /\ mw[w].pc = "save_url"
    /\ \E t \in {now, now + 1} :      \* the time that has passed since the last reading
          LET url == [mw[w].url EXCEPT
                        !.last_checked = NewLastChecked(mw[w].url.last_checked, t)] IN
          /\ now' = t
          /\ upload_url' = url
          /\ SetMonitor(w, [mw[w] EXCEPT
                !.url = url,
                !.pc = IF mw[w].exc = NoException THEN "get" ELSE "release",
                !.exc = IF mw[w].exc.type = "VideoNotUploaded" THEN NoException
                        ELSE mw[w].exc,
                !.not_uploaded = (mw[w].exc.type = "VideoNotUploaded")])
    /\ UNCHANGED <<cache, videos, video_playlists, processing_states, formats,
                   next_pk, uploaded, sent_tasks, tw>>
    /\ UNCHANGED <<view_cache, api>>

\* lines 133-136, get_or_create: the lookup
MonitorGetVideo(w) ==
    /\ mw[w].pc = "get"
    /\ LET found == VideosOf(videos, mw[w].url.public_video_id) IN
       IF found # {}
       THEN \E v \in found :
               SetMonitor(w, [mw[w] EXCEPT
                  !.video = v, !.created = FALSE, !.pc = "update_video"])
       ELSE SetMonitor(w, [mw[w] EXCEPT !.pc = "create"])
    /\ UNCHANGED <<cache, db, uploaded, sent_tasks, tw>>
    /\ UNCHANGED <<now, view_cache, api>>

\* lines 133-136, get_or_create: the row was not found and is created in a
\* transaction together with its ProcessingState (models.py:66-72); when the
\* insert is refused the row that exists is returned with created = False
MonitorCreateVideo(w) ==
    /\ mw[w].pc = "create"
    /\ LET row == [pk |-> next_pk, public_id |-> mw[w].url.public_video_id,
                   title |-> "", owner |-> Owner]
           ins == InsertVideo(videos, row) IN
       IF ins.ok
       THEN /\ videos' = ins.rows
            /\ processing_states' = processing_states \cup {NewProcessingState(row.pk)}
            /\ next_pk' = next_pk + 1
            /\ view_cache' = InvalidateCache(view_cache, row.public_id)
            /\ SetMonitor(w, [mw[w] EXCEPT
                  !.video = row, !.created = TRUE, !.pc = "update_video"])
       ELSE /\ UNCHANGED <<videos, processing_states, next_pk, view_cache>>
            /\ \E v \in VideosOf(videos, row.public_id) :
                  SetMonitor(w, [mw[w] EXCEPT
                     !.video = v, !.created = FALSE, !.pc = "update_video"])
    /\ UNCHANGED <<cache, upload_url, video_playlists, formats, uploaded,
                   sent_tasks, tw>>
    /\ UNCHANGED <<now, api>>

\* lines 137-140: the title is set and the video saved, then the video is
\* added to the playlist of the upload url
MonitorUpdateVideo(w) ==
    /\ mw[w].pc = "update_video"
    /\ LET saved == [mw[w].video EXCEPT !.title = mw[w].url.filename] IN
       /\ videos' = {v \in videos : v.pk # saved.pk} \cup {saved}
       /\ video_playlists' =
             IF mw[w].url.playlist # "None"
             THEN video_playlists \cup {<<saved.pk, mw[w].url.playlist>>}
             ELSE video_playlists
       /\ SetMonitor(w, [mw[w] EXCEPT !.video = saved, !.pc = "dispatch"])
    /\ UNCHANGED <<cache, upload_url, processing_states, formats, next_pk,
                   uploaded, sent_tasks, tw>>
    /\ view_cache' = InvalidateCache(view_cache, PublicVideoId)
    /\ UNCHANGED <<now, api>>

\* lines 143-144: transcoding is dispatched by the call that created the
\* row; in the eager configuration send_task runs transcode_video inside
\* this call ("apply")
MonitorDispatch(w) ==
    /\ mw[w].pc = "dispatch"
    /\ sent_tasks' = IF mw[w].created THEN sent_tasks + 1 ELSE sent_tasks
    /\ SetMonitor(w, [mw[w] EXCEPT
          !.pc = IF mw[w].created /\ SendTaskApplies(sweep.eager)
                 THEN "apply" ELSE "release"])
    /\ UNCHANGED <<cache, db, uploaded, tw>>
    /\ UNCHANGED <<now, view_cache, api>>

\* the transcode_video call made last
LastTranscodeCall ==
    IF \E t \in TWorkers : tw[t].pc # "idle"
    THEN CHOOSE t \in TWorkers :
            tw[t].pc # "idle" /\ \A u \in TWorkers : tw[u].pc # "idle" => u <= t
    ELSE 0

\* celery_videofront.py:33, eager configuration: task.apply returns when
\* transcode_video has ended; with CELERY_TASK_EAGER_PROPAGATES
\* (production.py:200) the error it raised is raised in the caller
MonitorApplyReturns(w) ==
    /\ mw[w].pc = "apply"
    /\ LastTranscodeCall # 0
    /\ tw[LastTranscodeCall].pc = "ended"
    /\ SetMonitor(w, [mw[w] EXCEPT
          !.exc = IF tw[LastTranscodeCall].outcome = "raised"
                  THEN Raised("Exception", <<>>) ELSE NoException,
          !.pc = "release"])
    /\ UNCHANGED <<cache, db, uploaded, sent_tasks, tw>>
    /\ UNCHANGED <<now, view_cache, api>>

\* lines 111-112: finally, release_lock; the call returns, or re-raises the
\* error of _monitor_upload
MonitorReleaseLock(w) ==
    /\ mw[w].pc = "release"
    /\ \E outcome \in CacheDeleteOutcomes :
          cache' = ReleaseLock(cache, MONITOR_LOCK, outcome)
    /\ SetMonitor(w, [IdleMonitor EXCEPT
          !.pc = "ended", !.acquired = TRUE,
          !.outcome = IF mw[w].exc = NoException THEN "returned" ELSE "raised"])
    /\ UNCHANGED <<db, uploaded, sent_tasks, tw>>
    /\ UNCHANGED <<now, view_cache, api>>

\* The worker that runs the invocation stops (it crashes or hangs) between
\* acquire_lock and release_lock: the invocation takes no further step.
MonitorStops(w) ==
    /\ mw[w].acquired
    /\ mw[w].pc \notin {"idle", "ended", "stopped"}
    /\ SetMonitor(w, [IdleMonitor EXCEPT !.pc = "stopped", !.acquired = TRUE])
    /\ UNCHANGED <<cache, db, uploaded, sent_tasks, tw>>
    /\ UNCHANGED <<now, view_cache, api>>

\* lines 137-144: the worker that detected the upload and created the Video
\* fails before send_task('transcode_video') is called: it is killed, or
\* video.save() or playlists.add raises; the invocation takes no further step.
MonitorFailsBeforeDispatch(w) ==
    /\ mw[w].created
    /\ mw[w].pc \in {"update_video", "dispatch"}
    /\ MonitorStops(w)

\* views.py, VideoViewSet (UpdateModelMixin): the owner gives the video a new
\* title; the video is saved and its cached read-view invalidated
UpdateVideoTitle ==
    /\ \E v \in VideosOf(videos, PublicVideoId) :
          /\ v.title # NewTitle
          /\ videos' = (videos \ {v}) \cup {[v EXCEPT !.title = NewTitle]}
    /\ view_cache' = InvalidateCache(view_cache, PublicVideoId)
    /\ UNCHANGED <<cache, upload_url, video_playlists, processing_states, formats,
                   next_pk, uploaded, sent_tasks, mw, tw, now, api>>

\* Time passes.
Tick ==
    /\ now < MaxClock
    /\ now' = now + 1
    /\ UNCHANGED <<cache, db, uploaded, sent_tasks, mw, tw, view_cache, api>>

\* The client finishes sending the file to the backend.
UploadCompletes ==
    /\ ~uploaded
    /\ uploaded' = TRUE
    /\ UNCHANGED <<cache, db, sent_tasks, mw, tw>>
    /\ UNCHANGED <<now, view_cache, api>>

(***************************************************************************)
(* transcode_video (tasks.py:146-212)                                      *)
(***************************************************************************)
NoProcessingState ==
    [video |-> 0, status |-> "", progress |-> [num |-> 0, den |-> 1], message |-> "",
     started_at |-> 0]

IdleTranscode ==
    [pc |-> "idle", acquired |-> FALSE, ps |-> NoProcessingState,
     jobs |-> 0, success_job_indexes |-> {}, error_job_indexes |-> {},
     errors |-> <<>>, jobs_progress |-> <<>>, job_index |-> 0,
     reported |-> <<>>,    \* the percentage check_progress returned last, by job
     queried |-> {},       \* the jobs queried in the current pass of the loop
     prior_formats |-> 0, listed |-> <<>>, todo |-> <<>>, deleted |-> 0,
     exc |-> NoException, outcome |-> "none"]

SetTranscode(w, r) == tw' = [tw EXCEPT ![w] = r]

\* the invocations that are between acquire_lock and release_lock
InTranscodeVideo ==
    {w \in TWorkers : tw[w].acquired /\ tw[w].pc \notin {"idle", "ended"}}

\* "\n".join(lines), lines being str
RECURSIVE JoinLines(_)
JoinLines(lines) ==
    IF lines = <<>> THEN ""
    ELSE IF Len(lines) = 1 THEN lines[1]
    ELSE lines[1] \o "\n" \o JoinLines(Tail(lines))

\* "\n".join(e.args): TypeError unless every argument is a str
JoinArgs(args) ==
    IF \A i \in 1..Len(args) : args[i].isStr
    THEN [ok |-> TRUE, text |-> JoinLines([i \in 1..Len(args) |-> args[i].text])]
    ELSE [ok |-> FALSE, text |-> ""]

TypeErrorArgs == <<StrArg("sequence item 0: expected str instance, int found")>>

RECURSIVE Sum(_)
Sum(seq) == IF seq = <<>> THEN 0 ELSE seq[1] + Sum(Tail(seq))

RECURSIVE Gcd(_, _)
Gcd(a, b) == IF b = 0 THEN a ELSE Gcd(b, a % b)

\* the fraction n/d in lowest terms
Fraction(n, d) == [num |-> n \div Gcd(n, d), den |-> d \div Gcd(n, d)]

\* sum(jobs_progress), not divided by the number of jobs
SumProgress(jobs_progress, jobs) == Fraction(Sum(jobs_progress), 1)

\* sum(jobs_progress) * 1. / len(jobs), as a fraction
MeanProgress(jobs_progress, jobs) == Fraction(Sum(jobs_progress), jobs)

\* the jobs of the invocation that are neither succeeded nor failed
Unresolved(t) == (1..t.jobs) \ (t.success_job_indexes \cup t.error_job_indexes)

\* the first job after index i that the for loop still queries
NextJob(t, i) ==
    IF \E j \in Unresolved(t) : j > i
    THEN CHOOSE j \in Unresolved(t) : j > i /\ \A k \in Unresolved(t) : k > i => j <= k
    ELSE 0

\* the test `if errors:` taken only when every job failed
HasErrorsAllJobs(t) == t.jobs > 0 /\ Len(t.errors) = t.jobs

\* line 200, `if errors:`
HasErrors(t) == t.errors # <<>>

\* VideoFormat.objects.filter(video=video).delete() that deletes nothing
KeepFormats(rows, pk) == rows

\* line 199, VideoFormat.objects.filter(video=video).delete()
DeleteFormats(rows, pk) == SelectSeq(rows, LAMBDA f : f.video # pk)

\* a VideoFormat row created without its bitrate
FormatRowNoBitrate(pk, f, attempt) ==
    [video |-> pk, name |-> f.name, bitrate |-> 0, attempt |-> attempt]

\* line 209, VideoFormat.objects.create(video=video, name=..., bitrate=...);
\* attempt records the invocation that created the row
FormatRow(pk, f, attempt) ==
    [video |-> pk, name |-> f.name, bitrate |-> f.bitrate, attempt |-> attempt]

\* the VideoFormat rows of a video, in order
FormatsOf(rows, pk) == SelectSeq(rows, LAMBDA f : f.video = pk)

\* ProcessingState.save(): the row of the instance is written, all fields;
\* started_at is a DateTimeField with auto_now = True (models.py:155-157),
\* which every save() sets to the current time
SaveProcessingState(rows, ps) ==
    {r \in rows : r.video # ps.video} \cup {[ps EXCEPT !.started_at = now]}

\* the public ids of the videos
VideoPks(public_id) == {v.pk : v \in VideosOf(videos, public_id)}

\* lines 148-152: the task is called; the lock is acquired or the call returns
TranscodeVideoCall(w) ==
    /\ tw[w].pc = "idle"
    /\ \A v \in TWorkers : v < w => tw[v].pc # "idle"   \* calls are numbered in order
    /\ LET got == AcquireLock(cache, TRANSCODE_LOCK, NO_TIMEOUT) IN
       /\ cache' = got.cache
       /\ SetTranscode(w, [tw[w] EXCEPT
             !.acquired = got.acquired,
             !.pc = IF got.acquired THEN "load" ELSE "ended",
             !.outcome = IF got.acquired THEN "none" ELSE "returned"])
    /\ UNCHANGED <<db, uploaded, sent_tasks, mw>>
    /\ UNCHANGED <<now, view_cache, api>>

\* lines 171-175: the video is loaded and its processing state reset
TranscodeLoadVideo(w) ==
    /\ tw[w].pc = "load"
    /\ IF VideosOf(videos, PublicVideoId) = {}
       THEN /\ SetTranscode(w, [tw[w] EXCEPT
                  !.exc = Raised("DoesNotExist",
                                 <<StrArg("Video matching query does not exist.")>>),
                  !.pc = "except"])
            /\ UNCHANGED <<processing_states, view_cache>>
       ELSE \E v \in VideosOf(videos, PublicVideoId) :
            LET rows == {r \in processing_states : r.video = v.pk} IN
            IF rows = {}
            THEN /\ SetTranscode(w, [tw[w] EXCEPT
                       !.exc = Raised("RelatedObjectDoesNotExist",
                                      <<StrArg("Video has no processing_state.")>>),
                       !.pc = "except"])
                 /\ UNCHANGED <<processing_states, view_cache>>
            ELSE \E row \in rows :
                    LET ps == [row EXCEPT !.progress = [num |-> 0, den |-> 1],
                                          !.status = STATUS_PENDING,
                                          !.started_at = now] IN
                    /\ processing_states' = SaveProcessingState(processing_states, ps)
                    /\ view_cache' = InvalidateCache(view_cache, v.public_id)
                    /\ SetTranscode(w, [tw[w] EXCEPT !.ps = ps, !.pc = "start"])
    /\ UNCHANGED <<cache, upload_url, videos, video_playlists, formats, next_pk,
                   uploaded, sent_tasks, mw>>
    /\ UNCHANGED <<now, api>>

\* lines 177-182: start_transcoding returns the jobs, or raises
TranscodeStart(w) ==
    /\ tw[w].pc = "start"
    /\ \/ \E n \in 0..MaxJobs :
             SetTranscode(w, [tw[w] EXCEPT
                !.jobs = n, !.success_job_indexes = {}, !.error_job_indexes = {},
                !.errors = <<>>, !.jobs_progress = [i \in 1..n |-> 0],
                !.reported = [i \in 1..n |-> 0],
                !.job_index = IF n > 0 THEN 1 ELSE 0,
                !.pc = IF n > 0 THEN "poll" ELSE "resolve"])
       \/ \E a \in BackendErrorArgs :
             SetTranscode(w, [tw[w] EXCEPT
                !.exc = Raised("Exception", a), !.pc = "except"])
    /\ UNCHANGED <<cache, db, uploaded, sent_tasks, mw>>
    /\ UNCHANGED <<now, view_cache, api>>

\* the step of the for loop after job i has been queried
AfterJob(t, i) ==
    LET j == NextJob(t, i) IN
    [t EXCEPT !.job_index = j, !.pc = IF j = 0 THEN "save_progress" ELSE "poll"]

\* a failed job whose entry of jobs_progress is set back to 0
JobFailedProgressLost(t, i, a) ==
    [t EXCEPT !.jobs_progress[i] = 0,
              !.error_job_indexes = @ \cup {i},
              !.errors = Append(@, IF a = <<>> THEN "" ELSE a[1].text)]

\* lines 189-192: check_progress raised TranscodingFailed(*a); the assignment
\* of line 186 has not been made
JobFailed(t, i, a) ==
    [t EXCEPT !.error_job_indexes = @ \cup {i},
              !.errors = Append(@, IF a = <<>> THEN "" ELSE a[1].text)]

\* lines 183-192: check_progress of the next unresolved job
TranscodeCheckProgress(w) ==
    /\ tw[w].pc = "poll"
    /\ LET i == tw[w].job_index IN
       \/ \E p \in Percents, finished \in BOOLEAN :
             SetTranscode(w, AfterJob(
                [tw[w] EXCEPT
                   !.jobs_progress[i] = p,
                   !.reported[i] = p,
                   !.queried = @ \cup {i},
                   !.success_job_indexes = IF finished THEN @ \cup {i} ELSE @], i))
       \/ \E a \in TranscodingFailedArgs :
             SetTranscode(w, AfterJob(
                [JobFailed(tw[w], i, a) EXCEPT !.queried = @ \cup {i}], i))
       \/ \E a \in BackendErrorArgs :
             SetTranscode(w, [tw[w] EXCEPT
                !.exc = Raised("Exception", a), !.pc = "except"])
    /\ UNCHANGED <<cache, db, uploaded, sent_tasks, mw>>
    /\ UNCHANGED <<now, view_cache, api>>

\* lines 194-196 and the test of the while loop at line 182
TranscodeSaveProgress(w) ==
    /\ tw[w].pc = "save_progress"
    /\ LET ps == [tw[w].ps EXCEPT
                    !.progress = MeanProgress(tw[w].jobs_progress, tw[w].jobs),
                    !.status = STATUS_PROCESSING]
           j == NextJob(tw[w], 0) IN
       /\ processing_states' = SaveProcessingState(processing_states, ps)
       /\ SetTranscode(w, [tw[w] EXCEPT
             !.ps = ps, !.job_index = j, !.queried = {},
             !.pc = IF j = 0 THEN "resolve" ELSE "poll"])
    /\ UNCHANGED <<cache, upload_url, videos, video_playlists, formats, next_pk,
                   uploaded, sent_tasks, mw>>
    /\ view_cache' = InvalidateCache(view_cache, PublicVideoId)
    /\ UNCHANGED <<now, api>>

\* lines 198-200: the message is set on the instance and the formats of the
\* video are deleted
TranscodeDeleteFormats(w) ==
    /\ tw[w].pc = "resolve"
    /\ formats' = DeleteFormats(formats, tw[w].ps.video)
    /\ view_cache' = IF FormatsOf(formats, tw[w].ps.video) # <<>>   \* post_delete, per row
                     THEN InvalidateCache(view_cache, PublicVideoId) ELSE view_cache
    /\ SetTranscode(w, [tw[w] EXCEPT
          !.ps.message = JoinLines(tw[w].errors),
          !.prior_formats = Len(FormatsOf(formats, tw[w].ps.video)),
          !.pc = IF HasErrors(tw[w]) THEN "save_failed" ELSE "iter_formats"])
    /\ UNCHANGED <<cache, upload_url, videos, video_playlists, processing_states,
                   next_pk, uploaded, sent_tasks, mw>>
    /\ UNCHANGED <<now, api>>

\* lines 202-203: some job failed
TranscodeSaveFailed(w) ==
    /\ tw[w].pc = "save_failed"
    /\ LET ps == [tw[w].ps EXCEPT !.status = STATUS_FAILED] IN
       /\ processing_states' = SaveProcessingState(processing_states, ps)
       /\ SetTranscode(w, [tw[w] EXCEPT !.ps = ps, !.pc = "delete_video"])
    /\ UNCHANGED <<cache, upload_url, videos, video_playlists, formats, next_pk,
                   uploaded, sent_tasks, mw>>
    /\ view_cache' = InvalidateCache(view_cache, PublicVideoId)
    /\ UNCHANGED <<now, api>>

\* line 204: backend delete_video is called; it deletes the assets, or raises
TranscodeDeleteVideo(w) ==
    /\ tw[w].pc = "delete_video"
    /\ \/ /\ uploaded' = FALSE
          /\ SetTranscode(w, [tw[w] EXCEPT !.deleted = @ + 1, !.pc = "release"])
       \/ /\ UNCHANGED uploaded
          /\ \E a \in BackendErrorArgs :
                SetTranscode(w, [tw[w] EXCEPT
                   !.deleted = @ + 1,
                   !.exc = Raised("Exception", a), !.pc = "except"])
    /\ UNCHANGED <<cache, db, sent_tasks, mw>>
    /\ UNCHANGED <<now, view_cache, api>>

\* line 208: iter_formats reports the formats, or raises
TranscodeIterFormats(w) ==
    /\ tw[w].pc = "iter_formats"
    /\ \/ \E l \in FormatLists :
             SetTranscode(w, [tw[w] EXCEPT
                !.listed = l, !.todo = l,
                !.pc = IF l = <<>> THEN "save_success" ELSE "create_format"])
       \/ \E a \in BackendErrorArgs :
             SetTranscode(w, [tw[w] EXCEPT
                !.exc = Raised("Exception", a), !.pc = "except"])
    /\ UNCHANGED <<cache, db, uploaded, sent_tasks, mw>>
    /\ UNCHANGED <<now, view_cache, api>>

\* lines 208-209: the next format is created, or the iteration raises
TranscodeCreateFormat(w) ==
    /\ tw[w].pc = "create_format"
    /\ \/ /\ formats' = Append(formats, FormatRow(tw[w].ps.video, Head(tw[w].todo), w))
          /\ view_cache' = InvalidateCache(view_cache, PublicVideoId)
          /\ SetTranscode(w, [tw[w] EXCEPT
                !.todo = Tail(@),
                !.pc = IF Tail(tw[w].todo) = <<>> THEN "save_success"
                       ELSE "create_format"])
       \/ /\ UNCHANGED <<formats, view_cache>>
          /\ \E a \in BackendErrorArgs :
                SetTranscode(w, [tw[w] EXCEPT
                   !.exc = Raised("Exception", a), !.pc = "except"])
    /\ UNCHANGED <<cache, upload_url, videos, video_playlists, processing_states,
                   next_pk, uploaded, sent_tasks, mw>>
    /\ UNCHANGED <<now, api>>

\* lines 211-212: every job succeeded and the formats are created
TranscodeSaveSuccess(w) ==
    /\ tw[w].pc = "save_success"
    /\ LET ps == [tw[w].ps EXCEPT !.status = STATUS_SUCCESS] IN
       /\ processing_states' = SaveProcessingState(processing_states, ps)
       /\ SetTranscode(w, [tw[w] EXCEPT !.ps = ps, !.pc = "release"])
    /\ UNCHANGED <<cache, upload_url, videos, video_playlists, formats, next_pk,
                   uploaded, sent_tasks, mw>>
    /\ view_cache' = InvalidateCache(view_cache, PublicVideoId)
    /\ UNCHANGED <<now, api>>

\* lines 155-163: the error is recorded with a queryset update and raised
\* again; when the join raises TypeError, that error propagates instead
TranscodeHandleException(w) ==
    /\ tw[w].pc = "except"
    /\ LET message == JoinArgs(tw[w].exc.args) IN
       IF message.ok
       THEN /\ processing_states' =
                 {IF r.video \in VideoPks(PublicVideoId)
                  THEN [r EXCEPT !.status = STATUS_FAILED, !.message = message.text]
                  ELSE r : r \in processing_states}
            /\ SetTranscode(w, [tw[w] EXCEPT !.pc = "release"])
       ELSE /\ UNCHANGED processing_states
            /\ SetTranscode(w, [tw[w] EXCEPT
                  !.exc = Raised("TypeError", TypeErrorArgs), !.pc = "release"])
    /\ UNCHANGED <<cache, upload_url, videos, video_playlists, formats, next_pk,
                   uploaded, sent_tasks, mw>>
    /\ UNCHANGED <<now, view_cache, api>>

\* lines 164-165: finally, release_lock; the call returns or raises
TranscodeReleaseLock(w) ==
    /\ tw[w].pc = "release"
    /\ \E outcome \in CacheDeleteOutcomes :
          cache' = ReleaseLock(cache, TRANSCODE_LOCK, outcome)
    /\ SetTranscode(w, [IdleTranscode EXCEPT
          !.pc = "ended", !.acquired = TRUE,
          !.outcome = IF tw[w].exc = NoException THEN "returned" ELSE "raised"])
    /\ UNCHANGED <<db, uploaded, sent_tasks, mw>>
    /\ UNCHANGED <<now, view_cache, api>>

\* The worker that runs the invocation stops (it crashes or hangs) between
\* acquire_lock and release_lock: the invocation takes no further step.
TranscodeStops(w) ==
    /\ tw[w].acquired
    /\ tw[w].pc \notin {"idle", "ended", "stopped"}
    /\ SetTranscode(w, [IdleTranscode EXCEPT !.pc = "stopped", !.acquired = TRUE])
    /\ UNCHANGED <<cache, db, uploaded, sent_tasks, mw>>
    /\ UNCHANGED <<now, view_cache, api>>

(***************************************************************************)
(* monitor_uploads (tasks.py:74-88)                                        *)
(***************************************************************************)
\* line 81: the sweep is called and should_check evaluated
SweepCall ==
    /\ sweep.pc = "idle"
    /\ \E l \in ShouldCheck(upload_url) :
          sweep' = [sweep EXCEPT !.listed = l, !.urls = l, !.pc = "loop"]
    /\ UNCHANGED <<cache, db, uploaded, sent_tasks, mw, tw, now, view_cache,
                   subtitles, backend_subtitles, rq>>

\* line 88: send_task('monitor_upload', args=(upload_url.public_video_id,))
\* for the next url; it hands the message to the broker and returns, or
\* runs the task ("apply")
SweepSendTask ==
    /\ sweep.pc = "loop"
    /\ sweep.urls # <<>>
    /\ sweep' = IF SendTaskApplies(sweep.eager)
                THEN [sweep EXCEPT !.sent = Append(@, Head(sweep.urls)),
                                   !.pc = "apply"]
                ELSE [sweep EXCEPT !.sent = Append(@, Head(sweep.urls)),
                                   !.queued = @ + 1,
                                   !.urls = Tail(@)]
    /\ UNCHANGED <<cache, db, uploaded, sent_tasks, mw, tw, now, view_cache,
                   subtitles, backend_subtitles, rq>>

\* The monitor_upload task of the w-th send_task of the sweep begins: in the
\* worker that took the message from the broker, or inside the sweep;
\* the task is called with the public id alone, wait = False.
MonitorTaskStarts(w) ==
    /\ w <= Len(sweep.sent)
    /\ sweep.pc = "apply" \/ w <= sweep.queued
    /\ MonitorUploadCall(w)
    /\ ~mw'[w].wait

\* celery_videofront.py:33, eager configuration: task.apply returns when
\* monitor_upload has ended; the error it raised is raised in the sweep,
\* which ends
SweepApplyReturns ==
    /\ sweep.pc = "apply"
    /\ mw[Len(sweep.sent)].pc = "ended"
    /\ sweep' = IF mw[Len(sweep.sent)].outcome = "raised"
                THEN [sweep EXCEPT !.inline = @ + 1, !.pc = "ended",
                                   !.outcome = "raised"]
                ELSE [sweep EXCEPT !.inline = @ + 1, !.urls = Tail(@),
                                   !.pc = "loop"]
    /\ UNCHANGED <<cache, db, uploaded, sent_tasks, mw, tw, now, view_cache,
                   subtitles, backend_subtitles, rq>>

\* the for loop is over and the sweep returns
SweepEnd ==
    /\ sweep.pc = "loop"
    /\ sweep.urls = <<>>
    /\ sweep' = [sweep EXCEPT !.pc = "ended", !.outcome = "returned"]
    /\ UNCHANGED <<cache, db, uploaded, sent_tasks, mw, tw, now, view_cache,
                   subtitles, backend_subtitles, rq>>

\* The transcode_video task of the t-th send_task('transcode_video') begins:
\* in the worker that took the message, or inside the call that sent it.
TranscodeTaskStarts(t) ==
    /\ t <= sent_tasks
    /\ TranscodeVideoCall(t)

(***************************************************************************)
(* The API views (api/v1/views.py)                                         *)
(*                                                                         *)
(* The database runs in autocommit mode (settings: no ATOMIC_REQUESTS):     *)
(* every statement of a view is committed on its own, unless the view      *)
(* opens a transaction.  post_save and post_delete receivers run after the *)
(* statement that triggers them.                                           *)
(***************************************************************************)
NoVideo == [pk |-> 0, public_id |-> "", title |-> "", owner |-> ""]

IdleRequest ==
    [pc |-> "idle", kind |-> "none", video |-> NoVideo, view |-> <<>>,
     user |-> "",          \* request.user
     subtitle |-> <<>>,    \* the Subtitle row written inside the open transaction
     exc |-> NoException, outcome |-> "none"]

SetRequest(r, q) == rq' = [rq EXCEPT ![r] = q]

\* the request has ended: 2xx ("returned"), 404 ("not_found"),
\* 400 ("bad_request") or an error that propagates ("raised")
EndRequestOf(r, kind, user, outcome) ==
    SetRequest(r, [IdleRequest EXCEPT !.pc = "ended", !.kind = kind,
                                      !.user = user, !.outcome = outcome])

EndRequest(r, kind, outcome) == EndRequestOf(r, kind, rq[r].user, outcome)

\* views.py:192-201, get_queryset: the videos of the user of the request
GetQueryset(rows, user) == {v \in rows : v.owner = user}

\* requests are numbered in the order in which they arrive
Arrives(r) ==
    /\ rq[r].pc = "idle"
    /\ \A q \in Requests : q < r => rq[q].pc # "idle"

\* VideoSerializer(instance).data with the rows of VideoQuerysetMixin:
\* select_related("processing_state"), prefetch_related("subtitles", "formats")
RenderView(v) ==
    [id |-> v.public_id,
     title |-> v.title,
     processing |->
        LET rows == {p \in processing_states : p.video = v.pk} IN
        IF rows = {} THEN <<>>
        ELSE LET p == CHOOSE p \in rows : TRUE IN
             <<[status |-> p.status, progress |-> p.progress,
                started_at |-> p.started_at]>>,
     subtitles |-> {t.public_id : t \in {u \in subtitles : u.video = v.pk}},
     formats |->
        LET rows == FormatsOf(formats, v.pk) IN
        [i \in 1..Len(rows) |-> [name |-> rows[i].name, bitrate |-> rows[i].bitrate]]]

\* views.py:254-264, retrieve: cache.get finds the view, or not
RetrieveCall(r) ==
    /\ Arrives(r)
    /\ \E user \in Users :
          IF CacheGet(view_cache, PublicVideoId) # <<>>
          THEN EndRequestOf(r, "retrieve", user, "returned")
          ELSE SetRequest(r, [rq[r] EXCEPT !.kind = "retrieve", !.user = user,
                                          !.pc = "get_object"])
    /\ UNCHANGED <<cache, db, uploaded, sent_tasks, mw, tw, sweep, now, view_cache,
                   subtitles, backend_subtitles>>

\* views.py:259-261: the video is read and rendered, or the answer is 404
RetrieveGetObject(r) ==
    /\ rq[r].pc = "get_object"
    /\ IF VideosOf(GetQueryset(videos, rq[r].user), PublicVideoId) = {}
       THEN EndRequest(r, "retrieve", "not_found")
       ELSE \E v \in VideosOf(GetQueryset(videos, rq[r].user), PublicVideoId) :
               SetRequest(r, [rq[r] EXCEPT !.view = <<RenderView(v)>>,
                                           !.pc = "cache_set"])
    /\ UNCHANGED <<cache, db, uploaded, sent_tasks, mw, tw, sweep, now, view_cache,
                   subtitles, backend_subtitles>>

\* views.py:263-264: the rendered view is cached and returned
RetrieveCacheSet(r) ==
    /\ rq[r].pc = "cache_set"
    /\ view_cache' = CacheSet(view_cache, PublicVideoId, rq[r].view)
    /\ EndRequest(r, "retrieve", "returned")
    /\ UNCHANGED <<cache, db, uploaded, sent_tasks, mw, tw, sweep, now,
                   subtitles, backend_subtitles>>

\* the rows that reference a video
RowsOf(rows, pk) == {x \in rows : x.video = pk}

\* views.py:266-269, destroy: get_object finds the video, or the answer is 404
DestroyCall(r) ==
    /\ Arrives(r)
    /\ \E user \in Users :
          IF VideosOf(GetQueryset(videos, user), PublicVideoId) = {}
          THEN EndRequestOf(r, "destroy", user, "not_found")
          ELSE \E v \in VideosOf(GetQueryset(videos, user), PublicVideoId) :
                  SetRequest(r, [rq[r] EXCEPT !.kind = "destroy", !.user = user,
                                              !.video = v, !.pc = "delete_rows"])
    /\ UNCHANGED <<cache, db, uploaded, sent_tasks, mw, tw, sweep, now, view_cache,
                   subtitles, backend_subtitles>>

\* views.py:268, super().perform_destroy(instance), i.e. instance.delete():
\* the row and the rows that reference it (on_delete=CASCADE) are deleted in
\* one transaction; post_delete invalidates the cached view
DestroyDeleteRows(r) ==
    /\ rq[r].pc = "delete_rows"
    /\ LET pk == rq[r].video.pk IN
       /\ videos' = {v \in videos : v.pk # pk}
       /\ processing_states' = processing_states \ RowsOf(processing_states, pk)
       /\ formats' = DeleteFormats(formats, pk)
       /\ subtitles' = subtitles \ RowsOf(subtitles, pk)
       /\ video_playlists' = {x \in video_playlists : x[1] # pk}
    /\ view_cache' = InvalidateCache(view_cache, rq[r].video.public_id)
    /\ SetRequest(r, [rq[r] EXCEPT !.pc = "delete_backend"])
    /\ UNCHANGED <<cache, upload_url, next_pk, uploaded, sent_tasks, mw, tw, sweep, now,
                   backend_subtitles>>

\* views.py:269 and tasks.py:237-239: backend delete_video deletes the
\* assets, or raises and the request fails with that error
DestroyDeleteBackend(r) ==
    /\ rq[r].pc = "delete_backend"
    /\ \/ /\ uploaded' = FALSE
          /\ EndRequest(r, "destroy", "returned")
       \/ /\ UNCHANGED uploaded
          /\ EndRequest(r, "destroy", "raised")
    /\ UNCHANGED <<cache, db, sent_tasks, mw, tw, sweep, now, view_cache, subtitles,
                   backend_subtitles>>

\* views.py:278-296, subtitles: get_object, then the checks of the request
SubtitlesCall(r) ==
    /\ Arrives(r)
    /\ \E user \in Users :
          IF VideosOf(GetQueryset(videos, user), PublicVideoId) = {}
          THEN EndRequestOf(r, "subtitles", user, "not_found")
          ELSE \/ EndRequestOf(r, "subtitles", user, "bad_request")  \* no file, or too large
               \/ \E v \in VideosOf(GetQueryset(videos, user), PublicVideoId) :
                     SetRequest(r, [rq[r] EXCEPT !.kind = "subtitles", !.user = user,
                                                 !.video = v, !.pc = "save"])
    /\ UNCHANGED <<cache, db, uploaded, sent_tasks, mw, tw, sweep, now, view_cache,
                   subtitles, backend_subtitles>>

\* views.py:301-302: the transaction is opened and the Subtitle row inserted
\* in it; its public id is new (the number of the request stands for it)
SubtitlesSave(r) ==
    /\ rq[r].pc = "save"
    /\ SetRequest(r, [rq[r] EXCEPT
          !.subtitle = <<[video |-> rq[r].video.pk, public_id |-> r]>>,
          !.pc = "upload"])
    /\ UNCHANGED <<cache, db, uploaded, sent_tasks, mw, tw, sweep, now, view_cache,
                   subtitles, backend_subtitles>>

\* the errors tasks.upload_subtitle raises before the content is uploaded
UploadSubtitleErrors ==
    { Raised("UnicodeDecodeError", <<>>),
      Raised("SubtitleInvalid", <<StrArg("Could not detect subtitle format")>>),
      Raised("Exception", <<StrArg("backend unavailable")>>) }

\* views.py:303-308 and tasks.py:214-235: the content is decoded, converted
\* and uploaded to the backend, or one of these steps raises
SubtitlesUpload(r) ==
    /\ rq[r].pc = "upload"
    /\ \/ /\ backend_subtitles' = backend_subtitles \cup {rq[r].subtitle[1].public_id}
          /\ SetRequest(r, [rq[r] EXCEPT !.pc = "exit"])
       \/ /\ UNCHANGED backend_subtitles
          /\ \E e \in UploadSubtitleErrors :
                SetRequest(r, [rq[r] EXCEPT !.exc = e, !.pc = "exit"])
    /\ UNCHANGED <<cache, db, uploaded, sent_tasks, mw, tw, sweep, now, view_cache,
                   subtitles>>

\* transaction.atomic that commits whatever ended the block
AtomicExitCommits(rows, written, exc) == rows \cup written

\* views.py:301, the end of `with transaction.atomic()`: the rows written in
\* the block are committed when it ends normally and rolled back when it
\* ends with an exception
AtomicExit(rows, written, exc) ==
    IF exc = NoException THEN rows \cup written ELSE rows

\* views.py:301-314: the transaction ends and the request is answered: 201,
\* 400 for SubtitleInvalid, or the error propagates; the commit is refused
\* (IntegrityError) when the video of the row is gone
SubtitlesExit(r) ==
    /\ rq[r].pc = "exit"
    /\ LET row == rq[r].subtitle[1]
           orphan == rq[r].exc = NoException
                     /\ ~\E v \in videos : v.pk = row.video
           exc == IF orphan THEN Raised("IntegrityError", <<>>) ELSE rq[r].exc IN
       /\ subtitles' = AtomicExit(subtitles, {row}, exc)
       /\ view_cache' = IF exc = NoException      \* post_save, inside the transaction
                         THEN InvalidateCache(view_cache, PublicVideoId)
                         ELSE view_cache
       /\ EndRequest(r, "subtitles",
             IF exc = NoException THEN "returned"
             ELSE IF exc.type = "SubtitleInvalid" THEN "bad_request" ELSE "raised")
    /\ UNCHANGED <<cache, db, uploaded, sent_tasks, mw, tw, sweep, now, backend_subtitles>>

\* views.py:401-439, transcode: the arguments are checked and
\* Video.objects.create inserts the row, or is refused with IntegrityError
EndpointCall(r) ==
    /\ Arrives(r)
    /\ \/ /\ EndRequest(r, "transcode", "bad_request")    \* path or name missing
          /\ UNCHANGED <<videos, next_pk>>
       \/ LET row == [pk |-> next_pk, public_id |-> upload_url.public_video_id,
                      title |-> Filename, owner |-> Owner]
              ins == InsertVideo(videos, row) IN
          IF ins.ok
          THEN /\ videos' = ins.rows
               /\ next_pk' = next_pk + 1
               /\ SetRequest(r, [rq[r] EXCEPT !.kind = "transcode", !.video = row,
                                              !.pc = "post_save"])
          ELSE /\ UNCHANGED <<videos, next_pk>>
               /\ EndRequest(r, "transcode", "raised")
    /\ UNCHANGED <<cache, upload_url, video_playlists, processing_states, formats,
                   uploaded, sent_tasks, mw, tw, sweep, now, view_cache, subtitles,
                   backend_subtitles>>

\* models.py:66-72 and 227-230: the post_save receivers of Video run after
\* the insert: the ProcessingState is created, the cached view invalidated
EndpointPostSave(r) ==
    /\ rq[r].pc = "post_save"
    /\ processing_states' = processing_states \cup {NewProcessingState(rq[r].video.pk)}
    /\ view_cache' = InvalidateCache(view_cache, rq[r].video.public_id)
    /\ SetRequest(r, [rq[r] EXCEPT !.pc = "send_task"])
    /\ UNCHANGED <<cache, upload_url, videos, video_playlists, formats, next_pk,
                   uploaded, sent_tasks, mw, tw, sweep, now, subtitles, backend_subtitles>>

\* views.py:441-443: 'transcode_video' is sent and the request answered
EndpointSendTask(r) ==
    /\ rq[r].pc = "send_task"
    /\ sent_tasks' = sent_tasks + 1
    /\ EndRequest(r, "transcode", "returned")
    /\ UNCHANGED <<cache, db, uploaded, mw, tw, sweep, now, view_cache, subtitles,
                   backend_subtitles>>

(***************************************************************************)
(* Specifications                                                          *)
(***************************************************************************)
\* After get_upload_url: the upload url exists, unused; there is no video.
InitUpload ==
    /\ cache = {}
    /\ \E p \in Playlists :
          upload_url = [public_video_id |-> PublicVideoId, was_used |-> FALSE,
                        filename |-> Filename, playlist |-> p,
                        last_checked |-> NoLastChecked]
    /\ uploaded = FALSE
    /\ videos = {}
    /\ video_playlists = {}
    /\ processing_states = {}
    /\ formats = <<>>
    /\ next_pk = 1
    /\ sent_tasks = 0
    /\ mw = [w \in MWorkers |-> IdleMonitor]
    /\ tw = [w \in TWorkers |-> IdleTranscode]
    /\ now = 0
    /\ view_cache = <<>>
    /\ subtitles = {}
    /\ backend_subtitles = {}
    /\ rq = [r \in Requests |-> IdleRequest]
    /\ sweep = IdleSweep

NextUpload ==
    \/ \E w \in MWorkers : MonitorUploadCall(w)
    \/ \E w \in MWorkers : MonitorUploadWaitEnd(w)
    \/ \E w \in MWorkers : MonitorGetUploadUrl(w)
    \/ \E w \in MWorkers : MonitorCheckVideo(w)
    \/ \E w \in MWorkers : MonitorSaveUploadUrl(w)
    \/ \E w \in MWorkers : MonitorGetVideo(w)
    \/ \E w \in MWorkers : MonitorCreateVideo(w)
    \/ \E w \in MWorkers : MonitorUpdateVideo(w)
    \/ \E w \in MWorkers : MonitorDispatch(w)
    \/ \E w \in MWorkers : MonitorReleaseLock(w)
    \/ ExpireLock
    \/ UploadCompletes
    \/ UpdateVideoTitle

\* The upload monitor alone: concurrent checks of one upload url.
SpecUpload == InitUpload /\ [][NextUpload]_vars

\* the calls of SpecUploadStops: one whose worker stops, and another
TwoCalls == {w \in MWorkers : w <= 2}

NextUploadStops ==
    \/ \E w \in TwoCalls : MonitorUploadCall(w)
    \/ \E w \in TwoCalls : MonitorUploadWaitEnd(w)
    \/ \E w \in TwoCalls : MonitorGetUploadUrl(w)
    \/ \E w \in TwoCalls : MonitorCheckVideo(w)
    \/ \E w \in TwoCalls : MonitorSaveUploadUrl(w)
    \/ \E w \in TwoCalls : MonitorGetVideo(w)
    \/ \E w \in TwoCalls : MonitorCreateVideo(w)
    \/ \E w \in TwoCalls : MonitorUpdateVideo(w)
    \/ \E w \in TwoCalls : MonitorDispatch(w)
    \/ \E w \in TwoCalls : MonitorReleaseLock(w)
    \/ \E w \in TwoCalls : MonitorStops(w)
    \/ ExpireLock
    \/ UploadCompletes

\* Two calls of the upload monitor with workers that may stop.  The cache drops an entry
\* whose timeout has elapsed, and a worker in wait_for_lock reads the cache
\* every 0.1 s: both happen if they stay possible.  Nothing makes a worker
\* that holds the lock take its next step.
SpecUploadStops ==
    /\ InitUpload
    /\ [][NextUploadStops]_vars
    /\ WF_vars(ExpireLock)
    /\ \A w \in TwoCalls : WF_vars(MonitorUploadWaitEnd(w))

\* After the upload monitor has created the video and sent 'transcode_video';
\* or after an operator has set the status of the video to restart.
InitTranscode ==
    /\ now = 0
    /\ cache = {}
    /\ upload_url = [public_video_id |-> PublicVideoId, was_used |-> TRUE,
                     filename |-> Filename, playlist |-> "playlist1",
                     last_checked |-> 0]
    /\ video_playlists = {<<1, "playlist1">>}
    /\ uploaded = TRUE
    /\ videos = {[pk |-> 1, public_id |-> PublicVideoId, title |-> Filename,
                   owner |-> Owner]}
    /\ \E status \in {STATUS_PENDING, STATUS_RESTART} :
          processing_states = {[NewProcessingState(1) EXCEPT !.status = status]}
    /\ formats = <<>>
    /\ next_pk = 2
    /\ sent_tasks = 1
    /\ mw = [w \in MWorkers |-> IdleMonitor]
    /\ tw = [w \in TWorkers |-> IdleTranscode]
    /\ view_cache = <<>>
    /\ subtitles = {}
    /\ backend_subtitles = {}
    /\ rq = [r \in Requests |-> IdleRequest]
    /\ sweep = IdleSweep

NextTranscode ==
    \/ \E w \in TWorkers : TranscodeVideoCall(w)
    \/ \E w \in TWorkers : TranscodeLoadVideo(w)
    \/ \E w \in TWorkers : TranscodeStart(w)
    \/ \E w \in TWorkers : TranscodeCheckProgress(w)
    \/ \E w \in TWorkers : TranscodeSaveProgress(w)
    \/ \E w \in TWorkers : TranscodeDeleteFormats(w)
    \/ \E w \in TWorkers : TranscodeSaveFailed(w)
    \/ \E w \in TWorkers : TranscodeDeleteVideo(w)
    \/ \E w \in TWorkers : TranscodeIterFormats(w)
    \/ \E w \in TWorkers : TranscodeCreateFormat(w)
    \/ \E w \in TWorkers : TranscodeSaveSuccess(w)
    \/ \E w \in TWorkers : TranscodeHandleException(w)
    \/ \E w \in TWorkers : TranscodeReleaseLock(w)

\* The transcoding driver alone: invocations of transcode_video for one video.
SpecTranscode == InitTranscode /\ [][NextTranscode]_vars

\* the calls of SpecTranscodeStops: one whose worker stops, and another
TwoTranscodeCalls == {w \in TWorkers : w <= 2}

NextTranscodeStops ==
    \/ \E w \in TwoTranscodeCalls : TranscodeVideoCall(w)
    \/ \E w \in TwoTranscodeCalls : TranscodeLoadVideo(w)
    \/ \E w \in TwoTranscodeCalls : TranscodeStart(w)
    \/ \E w \in TwoTranscodeCalls : TranscodeCheckProgress(w)
    \/ \E w \in TwoTranscodeCalls : TranscodeSaveProgress(w)
    \/ \E w \in TwoTranscodeCalls : TranscodeDeleteFormats(w)
    \/ \E w \in TwoTranscodeCalls : TranscodeSaveFailed(w)
    \/ \E w \in TwoTranscodeCalls : TranscodeDeleteVideo(w)
    \/ \E w \in TwoTranscodeCalls : TranscodeIterFormats(w)
    \/ \E w \in TwoTranscodeCalls : TranscodeCreateFormat(w)
    \/ \E w \in TwoTranscodeCalls : TranscodeSaveSuccess(w)
    \/ \E w \in TwoTranscodeCalls : TranscodeHandleException(w)
    \/ \E w \in TwoTranscodeCalls : TranscodeReleaseLock(w)
    \/ \E w \in TwoTranscodeCalls : TranscodeStops(w)

\* Two calls of the transcoding driver with workers that may stop.
SpecTranscodeStops == InitTranscode /\ [][NextTranscodeStops]_vars

\* The storage holds the file of the upload url; or the video has been
\* created from it already and 'transcode_video' sent.
InitApi ==
    /\ now = 0
    /\ cache = {}
    /\ uploaded = TRUE
    /\ formats = <<>>
    /\ mw = [w \in MWorkers |-> IdleMonitor]
    /\ tw = [w \in TWorkers |-> IdleTranscode]
    /\ view_cache = <<>>
    /\ subtitles = {}
    /\ backend_subtitles = {}
    /\ rq = [r \in Requests |-> IdleRequest]
    /\ sweep = IdleSweep
    /\ video_playlists = {}
    /\ \/ /\ upload_url = [public_video_id |-> PublicVideoId, was_used |-> FALSE,
                            filename |-> Filename, playlist |-> "None",
                            last_checked |-> NoLastChecked]
          /\ videos = {}
          /\ processing_states = {}
          /\ next_pk = 1
          /\ sent_tasks = 0
       \/ /\ upload_url = [public_video_id |-> PublicVideoId, was_used |-> TRUE,
                            filename |-> Filename, playlist |-> "None",
                            last_checked |-> 0]
          /\ videos = {[pk |-> 1, public_id |-> PublicVideoId, title |-> Filename,
                   owner |-> Owner]}
          /\ processing_states = {NewProcessingState(1)}
          /\ next_pk = 2
          /\ sent_tasks = 1

NextApi ==
    \/ \E r \in Requests : RetrieveCall(r)
    \/ \E r \in Requests : RetrieveGetObject(r)
    \/ \E r \in Requests : RetrieveCacheSet(r)
    \/ \E r \in Requests : DestroyCall(r)
    \/ \E r \in Requests : DestroyDeleteRows(r)
    \/ \E r \in Requests : DestroyDeleteBackend(r)
    \/ \E r \in Requests : SubtitlesCall(r)
    \/ \E r \in Requests : SubtitlesSave(r)
    \/ \E r \in Requests : SubtitlesUpload(r)
    \/ \E r \in Requests : SubtitlesExit(r)
    \/ \E r \in Requests : EndpointCall(r)
    \/ \E r \in Requests : EndpointPostSave(r)
    \/ \E r \in Requests : EndpointSendTask(r)
    \/ UpdateVideoTitle

\* The API views: concurrent requests for one video id.
SpecApi == InitApi /\ [][NextApi]_vars

\* the transcode_video invocation and the retrieve request of SpecCache
FirstCall == {w \in TWorkers : w = 1}
FirstRequest == {r \in Requests : r = 1}

NextCache ==
    \/ \E r \in FirstRequest : RetrieveCall(r)
    \/ \E r \in FirstRequest : RetrieveGetObject(r)
    \/ \E r \in FirstRequest : RetrieveCacheSet(r)
    \/ \E w \in FirstCall : TranscodeVideoCall(w)
    \/ \E w \in FirstCall : TranscodeLoadVideo(w)
    \/ \E w \in FirstCall : TranscodeStart(w)
    \/ \E w \in FirstCall : TranscodeCheckProgress(w)
    \/ \E w \in FirstCall : TranscodeSaveProgress(w)
    \/ \E w \in FirstCall : TranscodeDeleteFormats(w)
    \/ \E w \in FirstCall : TranscodeSaveFailed(w)
    \/ \E w \in FirstCall : TranscodeDeleteVideo(w)
    \/ \E w \in FirstCall : TranscodeIterFormats(w)
    \/ \E w \in FirstCall : TranscodeCreateFormat(w)
    \/ \E w \in FirstCall : TranscodeSaveSuccess(w)
    \/ \E w \in FirstCall : TranscodeHandleException(w)
    \/ \E w \in FirstCall : TranscodeReleaseLock(w)

\* The video exists and 'transcode_video' has been sent for it.
InitCache == InitTranscode

NextAttempt ==
    \/ Tick
    \/ \E w \in FirstCall : TranscodeVideoCall(w)
    \/ \E w \in FirstCall : TranscodeLoadVideo(w)
    \/ \E w \in FirstCall : TranscodeStart(w)
    \/ \E w \in FirstCall : TranscodeCheckProgress(w)
    \/ \E w \in FirstCall : TranscodeSaveProgress(w)
    \/ \E w \in FirstCall : TranscodeDeleteFormats(w)
    \/ \E w \in FirstCall : TranscodeSaveFailed(w)
    \/ \E w \in FirstCall : TranscodeDeleteVideo(w)
    \/ \E w \in FirstCall : TranscodeIterFormats(w)
    \/ \E w \in FirstCall : TranscodeCreateFormat(w)
    \/ \E w \in FirstCall : TranscodeSaveSuccess(w)
    \/ \E w \in FirstCall : TranscodeHandleException(w)
    \/ \E w \in FirstCall : TranscodeReleaseLock(w)

\* One transcode_video invocation while time passes.
SpecAttempt == InitTranscode /\ [][NextAttempt]_vars

\* One transcode_video invocation and one retrieve request, concurrently.
SpecCache == InitCache /\ [][NextCache]_vars

\* After get_upload_url, in either configuration of send_task.
InitSweep ==
    /\ cache = {}
    /\ upload_url = [public_video_id |-> PublicVideoId, was_used |-> FALSE,
                     filename |-> Filename, playlist |-> "None",
                     last_checked |-> NoLastChecked]
    /\ uploaded \in BOOLEAN
    /\ videos = {}
    /\ video_playlists = {}
    /\ processing_states = {}
    /\ formats = <<>>
    /\ next_pk = 1
    /\ sent_tasks = 0
    /\ mw = [w \in MWorkers |-> IdleMonitor]
    /\ tw = [w \in TWorkers |-> IdleTranscode]
    /\ now = 0
    /\ view_cache = <<>>
    /\ subtitles = {}
    /\ backend_subtitles = {}
    /\ rq = [r \in Requests |-> IdleRequest]
    /\ \E eager \in BOOLEAN : sweep = [IdleSweep EXCEPT !.eager = eager]

NextSweep ==
    \/ SweepCall
    \/ SweepSendTask
    \/ SweepApplyReturns
    \/ SweepEnd
    \/ \E w \in MWorkers : MonitorTaskStarts(w)
    \/ \E w \in MWorkers : MonitorGetUploadUrl(w)
    \/ \E w \in MWorkers : MonitorCheckVideo(w)
    \/ \E w \in MWorkers : MonitorSaveUploadUrl(w)
    \/ \E w \in MWorkers : MonitorGetVideo(w)
    \/ \E w \in MWorkers : MonitorCreateVideo(w)
    \/ \E w \in MWorkers : MonitorUpdateVideo(w)
    \/ \E w \in MWorkers : MonitorDispatch(w)
    \/ \E w \in MWorkers : MonitorApplyReturns(w)
    \/ \E w \in MWorkers : MonitorReleaseLock(w)
    \/ \E w \in FirstCall : TranscodeTaskStarts(w)
    \/ \E w \in FirstCall : TranscodeLoadVideo(w)
    \/ \E w \in FirstCall : TranscodeStart(w)
    \/ \E w \in FirstCall : TranscodeCheckProgress(w)
    \/ \E w \in FirstCall : TranscodeSaveProgress(w)
    \/ \E w \in FirstCall : TranscodeDeleteFormats(w)
    \/ \E w \in FirstCall : TranscodeSaveFailed(w)
    \/ \E w \in FirstCall : TranscodeDeleteVideo(w)
    \/ \E w \in FirstCall : TranscodeIterFormats(w)
    \/ \E w \in FirstCall : TranscodeCreateFormat(w)
    \/ \E w \in FirstCall : TranscodeSaveSuccess(w)
    \/ \E w \in FirstCall : TranscodeHandleException(w)
    \/ \E w \in FirstCall : TranscodeReleaseLock(w)

\* One sweep of monitor_uploads with the tasks it sends, in the eager and in
\* the broker configuration of send_task.
SpecSweep == InitSweep /\ [][NextSweep]_vars

NextSweepFails ==
    \/ NextSweep
    \/ \E w \in MWorkers : MonitorFailsBeforeDispatch(w)
    \/ ExpireLock

\* The sweep and its tasks, with a detecting worker that may fail between
\* the creation of the Video and the dispatch of 'transcode_video'.
SpecSweepFails == InitSweep /\ [][NextSweepFails]_vars

(***************************************************************************)
(* Claims                                                                  *)
(***************************************************************************)
TranscodeLockPresent == TRANSCODE_LOCK \in CacheKeys(cache)
MonitorLockPresent == MONITOR_LOCK \in CacheKeys(cache)

\* the state that transcode_video and monitor_upload work on
shared == <<cache, db, uploaded, sent_tasks>>

\* C1: at no time are two invocations of transcode_video between acquire_lock
\* and release_lock, and an invocation called while the lock is taken ends
\* in that step, having found the lock taken, and changes no row, no backend
\* asset and no cache entry.
C1_OneTranscodeAtATime ==
    [][ /\ Cardinality(InTranscodeVideo') <= 1
        /\ \A w \in TWorkers :
              (tw[w].pc = "idle" /\ tw'[w].pc # "idle" /\ TranscodeLockPresent)
              => /\ tw'[w].pc = "ended"
                 /\ ~tw'[w].acquired
                 /\ tw'[w].outcome = "returned"
                 /\ UNCHANGED shared
                 /\ \A v \in TWorkers \ {w} : tw'[v] = tw[v] ]_vars

\* C1 witness: an invocation has returned without the lock while another one
\* is in its poll loop.
C1_Witness ==
    \E w, v \in TWorkers :
       /\ tw[w].pc = "poll"
       /\ tw[v].pc = "ended" /\ ~tw[v].acquired /\ tw[v].outcome = "returned"

\* C2: at most one Video row with the public id exists, and 'transcode_video'
\* is sent at most once, whatever the number of checks that detect the upload.
C2_OneVideoOneDispatch ==
    /\ Cardinality(VideosOf(videos, PublicVideoId)) <= 1
    /\ sent_tasks <= 1

\* C2 witness: two checks that both detected the upload are at the dispatch
\* at the same time; one of them created the row, the other did not.
C2_Witness ==
    \E w, v \in MWorkers :
       /\ w # v
       /\ mw[w].pc = "dispatch" /\ mw[w].created
       /\ mw[v].pc = "dispatch" /\ ~mw[v].created
       /\ Cardinality(VideosOf(videos, PublicVideoId)) = 1

\* the persisted ProcessingState rows of the video
VideoStates == {r \in processing_states : r.video \in VideoPks(PublicVideoId)}

\* the persisted VideoFormat rows of the video, as (name, bitrate) pairs
VideoFormatList ==
    LET rows == SelectSeq(formats, LAMBDA f : f.video \in VideoPks(PublicVideoId)) IN
    [i \in 1..Len(rows) |-> [name |-> rows[i].name, bitrate |-> rows[i].bitrate]]

\* the invocations that made each persisted VideoFormat row of the video
VideoFormatAttempts ==
    {formats[i].attempt : i \in {j \in 1..Len(formats) :
                                   formats[j].video \in VideoPks(PublicVideoId)}}

\* An invocation that holds the lock has done all its work, error handler
\* included, when it is at release_lock, its last statement, which changes
\* no row: the state in which it ends is the state at that statement.
AtEnd(w) == tw[w].acquired /\ tw[w].pc = "release"
Returning(w) == AtEnd(w) /\ tw[w].exc = NoException
Raising(w) == AtEnd(w) /\ tw[w].exc # NoException

\* status = success and the formats are the list iter_formats reported
EndsInSuccess(w) ==
    /\ \A r \in VideoStates : r.status = STATUS_SUCCESS
    /\ VideoFormatList = tw[w].listed

\* status = failed, no format, backend delete_video performed
EndsInFailure(w) ==
    /\ \A r \in VideoStates : r.status = STATUS_FAILED
    /\ VideoFormatList = <<>>
    /\ tw[w].deleted = 1 /\ ~uploaded

FailedJobsOutcome(w) ==
    /\ \A r \in VideoStates :
          r.status = STATUS_FAILED /\ r.message = JoinLines(tw[w].errors)
    /\ VideoFormatList = <<>>
    /\ tw[w].deleted = 1

C5_FormatsBeforeSuccess ==
    \A w \in TWorkers :
       /\ tw[w].pc \in {"iter_formats", "create_format", "save_success"}
          => /\ \A r \in VideoStates : r.status # STATUS_SUCCESS
             /\ VideoFormatAttempts \subseteq {w}
             /\ VideoFormatList \o tw[w].todo = tw[w].listed
       /\ (AtEnd(w) /\ tw[w].ps.status = STATUS_SUCCESS)
          => /\ \A r \in VideoStates : r.status = STATUS_SUCCESS
             /\ VideoFormatList = tw[w].listed
             /\ VideoFormatAttempts \subseteq {w}

\* C5 witness: an attempt that found two formats of an earlier attempt has
\* written success with the one format the backend lists now.
C5_Witness ==
    \E w \in TWorkers :
       /\ AtEnd(w) /\ tw[w].ps.status = STATUS_SUCCESS
       /\ tw[w].prior_formats = 2
       /\ Len(tw[w].listed) = 1 /\ Len(formats) = 1

\* C6 as stated: an invocation that ends by raising leaves status failed and
\* raises the error of the step that failed.
C6_AsStated ==
    \A w \in TWorkers :
       Raising(w) => /\ \A r \in VideoStates : r.status = STATUS_FAILED
                     /\ tw[w].exc.type # "TypeError"

\* C7 as stated: the lock is present only while an invocation is between
\* acquire_lock and release_lock; it is absent once the invocation has ended.
C7_AsStated == InTranscodeVideo = {} => ~TranscodeLockPresent

\* C8 as stated: at no time are two executions of _monitor_upload in progress.
C8_AsStated == Cardinality(InMonitorUpload) <= 1

\* C9: a call that finds the lock held goes to wait_for_lock (wait) or ends
\* (no wait) and never to _monitor_upload; wait_for_lock ends only on seeing
\* the lock absent, and the call then returns; neither step changes a row, a
\* cache entry, the backend or the sent tasks.
C9_LockedCallDoesNothing ==
    [][ \A w \in MWorkers :
          /\ (mw[w].pc = "idle" /\ mw'[w].pc # "idle" /\ MonitorLockPresent)
             => /\ mw'[w].pc = IF mw'[w].wait THEN "waiting" ELSE "ended"
                /\ ~mw'[w].acquired
                /\ UNCHANGED shared
          /\ (mw[w].pc = "waiting" /\ mw'[w].pc # "waiting")
             => /\ ~MonitorLockPresent
                /\ mw'[w].pc = "ended" /\ mw'[w].outcome = "returned"
                /\ ~mw'[w].acquired
                /\ UNCHANGED shared ]_vars

\* C9 witness: a call with wait=True that found the lock held has returned
\* from wait_for_lock after the holder detected the upload, created the video
\* and released the lock; the waiting call itself ran no check.
C9_Witness ==
    \E w, v \in MWorkers :
       /\ mw[w].pc = "ended" /\ ~mw[w].acquired /\ mw[w].wait
       /\ mw[v].pc = "ended" /\ mw[v].acquired
       /\ upload_url.was_used /\ sent_tasks = 1

\* C10 as stated: when a call returns from wait_for_lock, an execution of
\* _monitor_upload has ended since the call was made.
C10_AsStated ==
    [][ \A w \in MWorkers :
          (mw[w].pc = "waiting" /\ mw'[w].pc = "ended")
          => Cardinality(MonitorUploadEnded) > mw[w].runs_at_call ]_vars

(***************************************************************************)
(* The upload url and the second check                                     *)
(***************************************************************************)
\* the rows and messages a check may write besides the upload url
beyond_url == <<videos, video_playlists, processing_states, formats, next_pk,
                sent_tasks, uploaded>>

\* C11 as stated: the check that got VideoNotUploaded writes the upload url
\* with nothing but last_checked changed, last_checked not earlier than the
\* persisted one, and neither that save nor the rest of the check touches a
\* video, a playlist, a processing state or the sent tasks.
C11_AsStated ==
    [][ \A w \in MWorkers :
          /\ (mw[w].pc = "save_url" /\ mw[w].exc.type = "VideoNotUploaded"
               /\ mw'[w].pc # "save_url")
             => /\ upload_url' = [upload_url EXCEPT
                                    !.last_checked = upload_url'.last_checked]
                /\ upload_url'.last_checked >= upload_url.last_checked
                /\ UNCHANGED beyond_url
          /\ (mw[w].not_uploaded /\ mw'[w] # mw[w])
             => UNCHANGED <<upload_url, beyond_url>> ]_vars

\* C12 as stated: once the persisted was_used is true it is true ever after.
C12_AsStated == [][ upload_url.was_used => upload_url'.was_used ]_vars

\* C13 as stated: no step of a check that started after an earlier check had
\* marked the url used and created the Video changes a Video, a playlist, a
\* ProcessingState or the sent tasks.
C13_AsStated ==
    [][ \A w \in MWorkers :
          (mw[w].already_used /\ mw'[w] # mw[w])
          => UNCHANGED <<videos, video_playlists, processing_states, sent_tasks>> ]_vars

(***************************************************************************)
(* Video and ProcessingState                                               *)
(***************************************************************************)
\* C14 as stated: every Video has exactly one ProcessingState and every
\* ProcessingState has its Video, in every state.
C14_AsStated ==
    /\ \A v \in videos : Cardinality(RowsOf(processing_states, v.pk)) = 1
    /\ \A p \in processing_states : \E v \in videos : v.pk = p.video

(***************************************************************************)
(* The cached read-view                                                    *)
(***************************************************************************)
\* the rows a read-view is rendered from
view_rows == <<videos, processing_states, formats, subtitles>>

\* C15 as stated: after every step that creates, updates or deletes a Video,
\* ProcessingState, VideoFormat or Subtitle row of the video, no read-view
\* is cached under its public id.
C15_AsStated == [][ view_rows' # view_rows => view_cache' = <<>> ]_vars

(***************************************************************************)
(* Progress and formats during an attempt                                  *)
(***************************************************************************)
\* a <= b, for fractions
FractionLeq(a, b) == a.num * b.den <= b.num * a.den

\* C16: the persisted progress of every ProcessingState is between 0 and 100.
C16_ProgressInRange ==
    \A p \in processing_states :
       /\ FractionLeq([num |-> 0, den |-> 1], p.progress)
       /\ FractionLeq(p.progress, [num |-> 100, den |-> 1])

\* C16 witness: with as many jobs as start_transcoding can return, all
\* reported at 100, the persisted progress is 100.
C16_Witness ==
    \E w \in TWorkers :
       /\ tw[w].jobs = MaxJobs
       /\ \A i \in 1..MaxJobs : tw[w].jobs_progress[i] = 100
       /\ \A p \in VideoStates : p.progress = [num |-> 100, den |-> 1]

\* the invocations that have reset the processing state and not yet ended
AfterReset(w) == tw[w].acquired /\ tw[w].pc \notin {"idle", "load", "ended"}

\* C17 as stated: no step taken while an attempt is past its reset lowers the
\* persisted progress.
C17_AsStated ==
    [][ (\E w \in TWorkers : AfterReset(w))
        => \A p \in processing_states, q \in processing_states' :
              p.video = q.video => FractionLeq(p.progress, q.progress) ]_vars

\* C18 as stated: the VideoFormat rows of the video never come from two
\* attempts, and while an attempt creates its rows they are none or all of
\* the list it is writing.
C18_AsStated ==
    /\ Cardinality(VideoFormatAttempts) <= 1
    /\ \A w \in TWorkers :
          tw[w].pc = "create_format"
          => (VideoFormatList = <<>> \/ VideoFormatList = tw[w].listed)

(***************************************************************************)
(* Subtitles and deletion                                                  *)
(***************************************************************************)
\* the subtitles requests that have ended in an error
FailedSubtitles ==
    {r \in Requests : /\ rq[r].pc = "ended" /\ rq[r].kind = "subtitles"
                      /\ rq[r].outcome \in {"bad_request", "raised"}}

\* C19: no Subtitle row of a subtitles request that ended in an error
\* exists, and the content of every Subtitle row that exists was uploaded
\* to the backend.
C19_NoRowWithoutUpload ==
    /\ \A r \in FailedSubtitles : ~\E t \in subtitles : t.public_id = r
    /\ \A t \in subtitles : t.public_id \in backend_subtitles

\* C19 witness: of two subtitles requests for the video, one has failed in
\* the upload step and left no row, the other has uploaded its content and
\* its row exists.
C19_Witness ==
    \E r, q \in Requests :
       /\ r \in FailedSubtitles /\ rq[r].outcome = "raised"
       /\ rq[q].pc = "ended" /\ rq[q].kind = "subtitles" /\ rq[q].outcome = "returned"
       /\ {t.public_id : t \in subtitles} = {q}
       /\ backend_subtitles = {q}
       /\ VideosOf(videos, PublicVideoId) # {}

\* the rows of the video with primary key pk, in rows and owned tables
Remains(pk, vs, ps, fs, ss) ==
    \/ \E v \in vs : v.pk = pk
    \/ RowsOf(ps, pk) # {}
    \/ FormatsOf(fs, pk) # <<>>
    \/ RowsOf(ss, pk) # {}

\* C20 as stated: the deletion removes the Video row with the rows it owns,
\* then calls backend delete_video; when the request has ended, the row and
\* the backend assets are both gone or both present.
C20_AsStated ==
    [][ \A r \in Requests :
          /\ (rq[r].pc = "delete_rows" /\ rq'[r].pc # "delete_rows")
             => ~Remains(rq[r].video.pk, videos', processing_states', formats',
                         subtitles')
          /\ (rq[r].pc = "delete_backend" /\ rq'[r].pc = "ended")
             => (Remains(rq[r].video.pk, videos', processing_states', formats',
                         subtitles') <=> uploaded') ]_vars

\* the statuses in which an attempt ends
TerminalStatuses == {STATUS_SUCCESS, STATUS_FAILED}

\* the order of the statuses within one attempt: pending, then processing,
\* then one terminal status, which is kept
StatusFollows(s, t) ==
    \/ t = s
    \/ s = STATUS_PENDING /\ t \in {STATUS_PROCESSING} \cup TerminalStatuses
    \/ s = STATUS_PROCESSING /\ t \in TerminalStatuses

\* the statuses written by an attempt follow the order, from the reset on
C21_StatusOrder ==
    [][ \A w \in TWorkers :
          /\ (tw[w].pc = "load" /\ tw'[w].pc = "start")
             => \A q \in VideoStates' :
                   q.status = STATUS_PENDING /\ q.progress = [num |-> 0, den |-> 1]
          /\ AfterReset(w)
             => \A p \in VideoStates, q \in VideoStates' :
                   StatusFollows(p.status, q.status) ]_vars

\* C21 as stated: within one attempt the persisted status is reset to pending
\* with progress 0 whatever it was, then is processing zero or more times,
\* then takes one terminal status, success or failed, which later writes of
\* the attempt keep: no pending or processing after it, and no change from
\* one terminal status to the other; the attempt ends in a terminal status.
C21_AsStated ==
    [][ \A w \in TWorkers :
          /\ (tw[w].pc = "load" /\ tw'[w].pc = "start")
             => \A q \in VideoStates' :
                   q.status = STATUS_PENDING /\ q.progress = [num |-> 0, den |-> 1]
          /\ AfterReset(w)
             => \A p \in VideoStates, q \in VideoStates' :
                   StatusFollows(p.status, q.status)
          /\ (AfterReset(w) /\ tw'[w].pc = "release")
             => \A q \in VideoStates' : q.status \in TerminalStatuses ]_vars

\* C22 as stated: a sweep that has ended has called send_task once for each
\* url should_check returned and for no other, has run no check itself and
\* has waited for none, in the eager configuration too.
C22_AsStated ==
    sweep.pc = "ended"
    => /\ sweep.sent = sweep.listed
       /\ sweep.inline = 0
       /\ sweep.outcome = "returned"

\* C22, amended: when send_task is not configured eager, a sweep that has
\* ended has called send_task once for each url should_check returned and
\* for no other, has run no check itself and has waited for none.
C22_SweepOnlyDispatches ==
    (sweep.pc = "ended" /\ ~sweep.eager)
    => /\ sweep.sent = sweep.listed
       /\ sweep.queued = Len(sweep.listed)
       /\ sweep.inline = 0
       /\ sweep.outcome = "returned"

\* the sweep has ended before the check it sent has begun
C22_Witness ==
    /\ sweep.pc = "ended" /\ ~sweep.eager
    /\ sweep.sent = <<PublicVideoId>>
    /\ \A w \in MWorkers : mw[w].pc = "idle"

\* C23: the progress that a pass of the poll loop persists is the sum of the
\* percentages the jobs reported last, divided by the number of jobs: 0 for a
\* job not yet queried, the last percentage before the failure for a failed
\* job, the percentage reported with finished = true for a finished job.
C23_ProgressIsMeanOfReports ==
    [][ \A w \in TWorkers :
          (tw[w].pc = "save_progress" /\ tw'[w].pc # "save_progress")
          => \A q \in VideoStates' :
                /\ q.status = STATUS_PROCESSING
                /\ q.progress.num * tw[w].jobs
                      = Sum(tw[w].reported) * q.progress.den ]_vars

\* the last pass has been persisted: one job failed after it had reported
\* 100, the other finished reporting 0, and the progress is 50
C23_Witness ==
    \E w \in TWorkers :
       /\ tw[w].pc = "resolve" /\ tw[w].jobs = 2
       /\ \E i \in tw[w].error_job_indexes, j \in tw[w].success_job_indexes :
             tw[w].reported[i] = 100 /\ tw[w].reported[j] = 0
       /\ \A q \in VideoStates : q.progress = [num |-> 50, den |-> 1]

\* C24 as stated: at every dispatch of 'transcode_video' by the upload
\* monitor the dispatching call has created the Video row, a Video row with
\* the id exists and the upload url is persisted as used; a call that did not
\* create the row dispatches nothing.
C24_AsStated ==
    [][ \A w \in MWorkers :
          (mw[w].pc = "dispatch" /\ mw'[w].pc # "dispatch")
          => IF sent_tasks' # sent_tasks
             THEN /\ mw[w].created
                  /\ VideosOf(videos, PublicVideoId) # {}
                  /\ upload_url.was_used
             ELSE ~mw[w].created ]_vars

\* C25 as stated: the reset of an attempt sets started_at to the time of the
\* reset, and no later write of the attempt changes it.
C25_AsStated ==
    [][ \A w \in TWorkers :
          /\ (tw[w].pc = "load" /\ tw'[w].pc = "start")
             => \A q \in VideoStates' : q.started_at = now
          /\ AfterReset(w)
             => \A p \in VideoStates, q \in VideoStates' :
                   q.started_at = p.started_at ]_vars

\* C26 as stated, for the runs that end: the poll loop queries only jobs that
\* have not resolved, a pass that is over has queried every job that had not
\* resolved before it, and an invocation whose jobs have resolved ends with
\* the status success or failed.
C26_AsStated ==
    \A w \in TWorkers :
       /\ tw[w].pc = "poll" => tw[w].job_index \in Unresolved(tw[w])
       /\ tw[w].pc = "save_progress"
          => (1..tw[w].jobs) \ tw[w].queried
                \subseteq tw[w].success_job_indexes \cup tw[w].error_job_indexes
       /\ (AtEnd(w) /\ tw[w].jobs > 0 /\ Unresolved(tw[w]) = {})
          => \A q \in VideoStates : q.status \in TerminalStatuses

\* the invocations whose worker stopped while it held the lock
StoppedMonitors == {w \in MWorkers : mw[w].pc = "stopped"}

\* C27: when a worker that holds the upload-check lock stops without
\* releasing it, the lock becomes absent (its timeout of 60 s elapses); a
\* monitor_upload called while the lock is absent acquires it and goes on to
\* the check; and every caller blocked in wait_for_lock returns.
C27_StoppedHolderRecovers ==
    /\ (StoppedMonitors # {} /\ MonitorLockPresent) ~> ~MonitorLockPresent
    /\ [][ \A w \in MWorkers :
             (mw[w].pc = "idle" /\ mw'[w].pc # "idle" /\ ~MonitorLockPresent)
             => mw'[w].acquired /\ mw'[w].pc = "get_url" ]_vars
    /\ \A w \in MWorkers : (mw[w].pc = "waiting") ~> (mw[w].pc = "ended")

\* the holder stopped, the timeout has elapsed and the lock is absent, and
\* the caller that was blocked in wait_for_lock has returned
C27_Witness ==
    \E w \in MWorkers :
       /\ StoppedMonitors # {}
       /\ ~MonitorLockPresent
       /\ mw[w].wait /\ mw[w].pc = "ended" /\ mw[w].outcome = "returned"

\* the invocations whose worker stopped while it held the TRANSCODE_VIDEO lock
StoppedTranscodes == {w \in TWorkers : tw[w].pc = "stopped"}

\* once a worker has stopped, a transcode_video that is called returns at
\* once, and no step removes the lock or writes a row
StoppedHolderBlocks ==
    [][ StoppedTranscodes # {}
        => /\ TranscodeLockPresent'
           /\ processing_states' = processing_states
           /\ formats' = formats /\ videos' = videos
           /\ \A w \in TWorkers :
                 (tw[w].pc = "idle" /\ tw'[w].pc # "idle")
                 => ~tw'[w].acquired /\ tw'[w].pc = "ended" ]_vars

\* C28 as stated: when a worker has stopped between acquire_lock and
\* release_lock, the lock is present and stays, every transcode_video called
\* later returns at once without effect, and the status of the video stays at
\* the value it had, which is not a terminal one.
C28_AsStated ==
    /\ [](StoppedTranscodes # {}
          => /\ TranscodeLockPresent
             /\ \A q \in VideoStates : q.status \notin TerminalStatuses)
    /\ StoppedHolderBlocks

\* C28, amended: when a worker has stopped between acquire_lock and
\* release_lock, the lock is present and stays, every transcode_video called
\* later returns at once without effect, and the status of the video stays at
\* the value it had.
C28_StoppedHolderKeepsLock ==
    /\ [](StoppedTranscodes # {} => TranscodeLockPresent)
    /\ StoppedHolderBlocks

\* the holder stopped during the poll loop, and a later call has returned
\* without the lock
C28_Witness ==
    \E w \in TWorkers :
       /\ StoppedTranscodes # {}
       /\ ~tw[w].acquired /\ tw[w].pc = "ended"
       /\ \A q \in VideoStates : q.status = STATUS_PROCESSING

\* the retrieve requests that are between cache.get and cache.set
RetrieveInProgress ==
    {r \in Requests : rq[r].kind = "retrieve" /\ rq[r].pc \notin {"idle", "ended"}}

\* C29 as stated: whenever no retrieve request is in progress, the cached
\* read-view of the video is absent or is the view rendered from the rows
\* that are persisted; no view of a deleted video stays in the cache.
C29_AsStated ==
    RetrieveInProgress = {}
    => \/ view_cache = <<>>
       \/ \E v \in VideosOf(videos, PublicVideoId) : view_cache = <<RenderView(v)>>

\* C30 as stated: a retrieve request of a user who does not own the video
\* ends with not-found, whether or not the view has been cached by an earlier
\* retrieve.
C30_AsStated ==
    \A r \in Requests :
       (rq[r].kind = "retrieve" /\ rq[r].pc = "ended" /\ rq[r].user # Owner)
       => rq[r].outcome = "not_found"

(***************************************************************************)
(* Recovery of the upload monitor                                          *)
(***************************************************************************)

\* a Video with the public id has been created: it exists, or its primary
\* key has been given out and the row deleted since
VideoHasBeenCreated == VideosOf(videos, PublicVideoId) # {} \/ next_pk > 1

\* C31 as stated: whenever no upload check is in progress, an upload url
\* persisted with was_used = true has had its Video created, also when the
\* check was interrupted between the save of the url and get_or_create.
C31_AsStated ==
    (InMonitorUpload = {} /\ upload_url.was_used) => VideoHasBeenCreated

\* the invocation that stored the upload-check lock now in the cache: calls
\* are numbered in the order they are made and acquire_lock is their first
\* statement, so it is the last call whose cache.add succeeded
MonitorLockHolder ==
    CHOOSE w \in MWorkers :
       /\ mw[w].acquired
       /\ \A v \in MWorkers : mw[v].acquired => v <= w

\* C33 as stated: release_lock at the end of a monitor_upload invocation
\* removes the upload-check lock only when that invocation stored the entry
\* that is in the cache; an invocation whose entry expired and whose lock was
\* acquired again by another invocation does not remove the other's entry.
C33_AsStated ==
    [][ \A w \in MWorkers :
           (/\ mw[w].pc = "release" /\ mw'[w].pc = "ended"
            /\ MonitorLockPresent /\ ~MonitorLockPresent')
           => MonitorLockHolder = w ]_vars

\* Nothing is left to run: no invocation of a task is in progress, every
\* task that was sent has been executed, and the sweep is not in its loop.
Quiescent ==
    /\ \A w \in MWorkers : mw[w].pc \in {"idle", "ended", "stopped"}
    /\ \A t \in TWorkers : tw[t].pc \in {"idle", "ended", "stopped"}
    /\ \A w \in MWorkers : w <= Len(sweep.sent) => mw[w].pc # "idle"
    /\ \A t \in TWorkers : t <= sent_tasks => tw[t].pc # "idle"
    /\ sweep.pc # "loop"

\* C32 as stated, in the form a finite run refutes: once the upload has been
\* detected (the url is persisted as used, so that no later sweep checks it)
\* and nothing is left to run, the Video exists with status success or
\* failed, also when the detecting worker failed after creating the Video
\* and before dispatching 'transcode_video'.
C32_AsStated ==
    (upload_url.was_used /\ Quiescent)
    => \E q \in VideoStates : q.status \in TerminalStatuses

====
